---- MODULE Spec2Model ----
(***************************************************************************)
(* Trial generation and target recomputation of MotorNet/tasks/tasks.py.   *)
(*                                                                         *)
(* Units.  Cartesian coordinates and distances are integers in units of    *)
(* 0.005, so the tolerances 0.1 and 0.035 are 20 and 7.  Durations that    *)
(* the code keeps as floats (delay_range, the uniform draw) are integers   *)
(* in HALF steps, so 3 is 1.5 steps; durations the code keeps as ints      *)
(* (delay_time, bump_length, fixation_time, n_timesteps) are whole steps.  *)
(* Probabilities and np.random.rand() draws are integers in units of 0.05. *)
(* A tensor [batch, time, channel] is a sequence of trials, each a         *)
(* sequence of timesteps, each a tuple of channels; python index k is      *)
(* sequence index k + 1.                                                   *)
(***************************************************************************)
EXTENDS Integers, Sequences, FiniteSets, TLC

VARIABLES
    pc,                     \* "ready" | "returned" | "raised" | "rolled_out" | "recomputed" | "recomputed_twice"
    task,                   \* the Task subclass that was constructed
    conf,                   \* the fields __init__ sets from kwargs
    last_batch_size,        \* Task.last_batch_size
    last_n_timesteps,       \* Task.last_n_timesteps
    perturbation_dim_start, \* controller.perturbation_dim_start
    init_states,            \* joint state of each trial, as get_initial_state returned it
    draws,                  \* the random draws of the call, one record per trial
    inputs,                 \* the returned inputs tensor
    targets,                \* the returned targets tensor
    outputs,                \* outputs['cartesian position'][:, :, 0:2] of the forward pass
    new_targets             \* what recompute_targets returned

vars == <<pc, task, conf, last_batch_size, last_n_timesteps, perturbation_dim_start,
          init_states, draws, inputs, targets, outputs, new_targets>>

None == "None"

----------------------------------------------------------------------------
(* Bounds of the model. *)

MaxBatch == 2          \* batch_size of the static and delayed-reach generators
MaxSteps == 4          \* n_timesteps
MaxBump == 1           \* bump_length, in steps
MaxTargets == 2        \* num_target of the multi-reach generator
MaxMultiBatch == 1     \* batch_size of the multi-reach generator
MaxLoadBatch == 1      \* batch_size of the load-probability generator
MaxFixation == 1       \* fixation_time, in steps
MaxDelaySample == 7    \* delay bounds handed to generate_delay_time alone, in half steps
MaxCells == 2          \* timesteps of the tensors handed to recompute_targets alone

----------------------------------------------------------------------------
(* Helpers for tensors. *)

Fill(n, v) == [k \in 1..n |-> v]

\* python's int() of a float given in half steps: truncation toward zero
IntOfHalf(h) == IF h >= 0 THEN h \div 2 ELSE -((-h) \div 2)

\* the least integer r with r >= sqrt(n): for integers d and t,
\* sqrt(n) <= t exactly when CeilSqrt(n) <= t
CeilSqrt(n) == CHOOSE r \in 0..n : r * r >= n /\ (r = 0 \/ (r - 1) * (r - 1) < n)

----------------------------------------------------------------------------
(* The plant and the controller, external to tasks.py. *)

\* the joint states plant.draw_random_uniform_states draws goals from
GoalStates == {2, 3}

\* plant.joint2cartesian: a joint state's cartesian state <<x, y, vx, vy>>
joint2cartesian(j) ==
    CASE j = 1 -> <<0, 0, 0, 0>>
      [] j = 2 -> <<12, 16, 0, 0>>
      [] OTHER -> <<-8, 6, 1, 0>>

\* plant.state2target: the state held for n_timesteps
state2target(state, n_timesteps) == Fill(n_timesteps, state)

\* Task.get_initial_state: the joint states the call may return, one per trial,
\* each drawn from the pool initial_joint_state with replacement
get_initial_state(pool, batch_size) ==
    {[i \in 1..batch_size |-> pool[idx[i]]] : idx \in [1..batch_size -> 1..Len(pool)]}

----------------------------------------------------------------------------
(* generate_delay_time *)

\* what a call gives: the value it returns, or the exception it raises
Returns(v) == [raised |-> None, value |-> v]
Raises(e) == [raised |-> e, value |-> 0]

\* np.random.uniform(low, high), on the half-step grid; numpy documents that
\* high itself may be returned through rounding
UniformDraws(low, high) == low..high

generate_delay_time_ceil(delay_min, delay_max, delay_mode, u) ==
    IF delay_mode = "random" THEN Returns((u + 1) \div 2)
    ELSE IF delay_mode = "noDelayInput" THEN Returns(0)
    ELSE Raises("AttributeError")

\* u is the value np.random.uniform(delay_min, delay_max) returned
generate_delay_time(delay_min, delay_max, delay_mode, u) ==
    IF delay_mode = "random" THEN Returns(IntOfHalf(u))
    ELSE IF delay_mode = "noDelayInput" THEN Returns(IntOfHalf(0))
    ELSE Raises("AttributeError")

DelayModes == {"random", "noDelayInput", "fixed"}

\* every pair 0 <= delay_min <= delay_max up to the bound, in half steps
SampledRanges == {r \in (0..MaxDelaySample) \X (0..MaxDelaySample) : r[1] <= r[2]}

InitDelay ==
    /\ pc = "ready"
    /\ task = "generate_delay_time"
    /\ conf \in {[delay_range |-> r] : r \in SampledRanges}
    /\ last_batch_size = None
    /\ last_n_timesteps = None
    /\ perturbation_dim_start = None
    /\ init_states = <<>>
    /\ draws = <<>>
    /\ inputs = <<>>
    /\ targets = <<>>
    /\ outputs = <<>>
    /\ new_targets = <<>>

\* one call generate_delay_time(delay_range[0], delay_range[1], delay_mode)
CallDelayTime ==
    /\ pc = "ready"
    /\ task = "generate_delay_time"
    /\ \E delay_mode \in DelayModes :
       \E u \in UniformDraws(conf.delay_range[1], conf.delay_range[2]) :
         LET r == generate_delay_time(conf.delay_range[1], conf.delay_range[2], delay_mode, u)
         IN /\ pc' = IF r.raised = None THEN "returned" ELSE "raised"
            /\ draws' = <<[delay_mode |-> delay_mode,
                           u |-> IF delay_mode = "random" THEN u ELSE 0,
                           delay_time |-> r.value]>>
    /\ UNCHANGED <<task, conf, last_batch_size, last_n_timesteps, perturbation_dim_start,
                   init_states, inputs, targets, outputs, new_targets>>

NextDelay == CallDelayTime

SpecDelay == InitDelay /\ [][NextDelay]_vars

\* C5 as stated: the truncated delay lies between the bounds as given,
\* delay_min <= delay_time <= delay_max, also when delay_min is not a whole step.
C5_AsStated ==
    (pc = "returned" /\ task = "generate_delay_time" /\ draws[1].delay_mode = "random")
        => /\ conf.delay_range[1] <= 2 * draws[1].delay_time
           /\ 2 * draws[1].delay_time <= conf.delay_range[2]

\* C5 amended: the truncated delay is at least delay_min truncated to whole
\* steps, int(delay_min) <= delay_time, and at most delay_max.
C5_TruncatedBounds ==
    (pc = "returned" /\ task = "generate_delay_time" /\ draws[1].delay_mode = "random")
        => /\ IntOfHalf(conf.delay_range[1]) <= draws[1].delay_time
           /\ 2 * draws[1].delay_time <= conf.delay_range[2]

\* a draw from fractional bounds was truncated to a step count below delay_min
C5_Witness ==
    /\ pc = "returned"
    /\ task = "generate_delay_time"
    /\ draws[1].delay_mode = "random"
    /\ conf.delay_range[1] % 2 = 1
    /\ conf.delay_range[2] % 2 = 1
    /\ conf.delay_range[1] < conf.delay_range[2]
    /\ 2 * draws[1].delay_time < conf.delay_range[1]
    /\ draws[1].delay_time >= 1

----------------------------------------------------------------------------
(* recompute_targets *)

DelayedReachTolerance == 20     \* 0.1
LoadTolerance == 7              \* 0.035
Sentinel == 200000              \* 1000.
Background == -1                \* the background load, and the marker recompute_targets tests

\* tf.sqrt(tf.reduce_sum((cartesian_pos[:, :, 0:2] - targets[:, :, 0:2])**2, axis=2)),
\* rounded up to the unit (which no comparison with a whole tolerance can tell)
Distance(pos, tgt) ==
    CeilSqrt((pos[1] - tgt[1]) * (pos[1] - tgt[1]) + (pos[2] - tgt[2]) * (pos[2] - tgt[2]))

\* tf.where(tf.equal(inputs[0][:, :, 3], -1.), 1000., dist)
MaskedDistance(in, dist) == IF in[4] = Background THEN Sentinel ELSE dist

\* tf.tile(dist, [1, 1, 2]) followed by tf.concat([dist, tf.zeros_like(dist)], axis=2)
PadDistance_ZerosFirst(dist) == <<0, 0, dist, dist>>

PadDistance(dist) == <<dist, dist, 0, 0>>

\* tf.concat([cartesian_pos[:, :, 0:2], tf.zeros_like(dist)], axis=2)
cartesian_pos_no_vel(pos) == <<pos[1], pos[2], 0, 0>>

WithinTolerance_Strict(dist, tolerance) == dist < tolerance

\* tf.less_equal(dist, tolerance), one channel
WithinTolerance(dist, tolerance) == dist <= tolerance

\* tf.where(tf.less_equal(dist, tolerance), cartesian_pos_no_vel, targets), one timestep
WhereWithin(dist4, tolerance, replacement, tgt) ==
    [c \in 1..4 |-> IF WithinTolerance(dist4[c], tolerance) THEN replacement[c] ELSE tgt[c]]

\* TaskDelayedReach.recompute_targets at one (trial, timestep)
DelayedReachRecomputeCell(tgt, pos) ==
    WhereWithin(PadDistance(Distance(pos, tgt)), DelayedReachTolerance,
                cartesian_pos_no_vel(pos), tgt)

LoadRecomputeCell_NoMask(in, tgt, pos) ==
    WhereWithin(PadDistance(Distance(pos, tgt)), LoadTolerance,
                cartesian_pos_no_vel(pos), tgt)

\* TaskLoadProbability.recompute_targets at one (trial, timestep)
LoadRecomputeCell(in, tgt, pos) ==
    WhereWithin(PadDistance(MaskedDistance(in, Distance(pos, tgt))), LoadTolerance,
                cartesian_pos_no_vel(pos), tgt)

\* recompute_targets(inputs, targets, outputs) of the task that has one
recompute_targets(tk, ins, tgts, outs) ==
    [i \in DOMAIN tgts |->
        [t \in DOMAIN tgts[i] |->
            IF tk = "DelayedReach"
            THEN DelayedReachRecomputeCell(tgts[i][t], outs[i][t])
            ELSE LoadRecomputeCell(ins[i][t], tgts[i][t], outs[i][t])]]

\* the tasks whose do_recompute_targets is True
RecomputingTasks == {"DelayedReach", "LoadProbability"}

Tolerance(tk) == IF tk = "DelayedReach" THEN DelayedReachTolerance ELSE LoadTolerance

\* the training step's call recompute_targets(inputs, targets, outputs)
Recompute ==
    /\ pc = "rolled_out"
    /\ task \in RecomputingTasks
    /\ new_targets' = recompute_targets(task, inputs, targets, outputs)
    /\ pc' = "recomputed"
    /\ UNCHANGED <<task, conf, last_batch_size, last_n_timesteps, perturbation_dim_start,
                   init_states, draws, inputs, targets, outputs>>

\* a second call with the same inputs and outputs, on the targets the first returned
RecomputeAgain ==
    /\ pc = "recomputed"
    /\ targets' = new_targets
    /\ new_targets' = recompute_targets(task, inputs, new_targets, outputs)
    /\ pc' = "recomputed_twice"
    /\ UNCHANGED <<task, conf, last_batch_size, last_n_timesteps, perturbation_dim_start,
                   init_states, draws, inputs, outputs>>

\* the values a cell of each tensor is drawn from when recompute_targets is
\* called on tensors of any content
AnyTargetCells == {<<0, 0, 0, 0>>, <<0, 0, 3, -2>>, <<12, 16, 0, 0>>}
AnyOutputCells == {<<0, 0>>, <<7, 0>>, <<8, 0>>, <<12, 17>>}
AnyInputCells(tk) ==
    IF tk = "DelayedReach" THEN {<<12, 16, 0>>}
    ELSE {<<10, 10, 0, Background>>, <<10, 10, 0, 0>>}

InitRecompute ==
    /\ pc = "rolled_out"
    /\ task \in RecomputingTasks
    /\ conf = None
    /\ last_batch_size = 1
    /\ last_n_timesteps \in 1..MaxCells
    /\ perturbation_dim_start = None
    /\ init_states = <<>>
    /\ draws = <<>>
    /\ inputs \in [1..1 -> [1..last_n_timesteps -> AnyInputCells(task)]]
    /\ targets \in [1..1 -> [1..last_n_timesteps -> AnyTargetCells]]
    /\ outputs \in [1..1 -> [1..last_n_timesteps -> AnyOutputCells]]
    /\ new_targets = <<>>

NextRecompute == Recompute \/ RecomputeAgain

SpecRecompute == InitRecompute /\ [][NextRecompute]_vars

\* the (trial, timestep) pairs of the targets tensor
Cells == UNION {{<<i, t>> : t \in 1..Len(targets[i])} : i \in 1..Len(targets)}

Recomputed == pc \in {"recomputed", "recomputed_twice"}

\* C1 as stated: where the Euclidean distance between the achieved and the
\* target position is at or below the tolerance the returned target is the
\* achieved position with zero velocity, and everywhere else it is the target
\* passed in, position and velocity.
C1_AsStated ==
    Recomputed =>
        \A c \in Cells :
            LET tgt == targets[c[1]][c[2]]
                pos == outputs[c[1]][c[2]]
            IN new_targets[c[1]][c[2]] =
                   IF Distance(pos, tgt) <= Tolerance(task)
                   THEN <<pos[1], pos[2], 0, 0>>
                   ELSE tgt

\* the timesteps recompute_targets locks: within tolerance and, for the
\* load-probability task, not carrying the background load
Locks(c) ==
    /\ Distance(outputs[c[1]][c[2]], targets[c[1]][c[2]]) <= Tolerance(task)
    /\ ~(task = "LoadProbability" /\ inputs[c[1]][c[2]][4] = Background)

\* C1 amended: the returned target has zero velocity at every timestep; its
\* position is the achieved position where the distance is at or below the
\* tolerance (and, for LoadProbabilityReach, the load channel is not -1), and
\* the position passed in everywhere else.
C1_PositionLockedVelocityZeroed ==
    Recomputed =>
        \A c \in Cells :
            LET tgt == targets[c[1]][c[2]]
                pos == outputs[c[1]][c[2]]
            IN new_targets[c[1]][c[2]] =
                   IF Locks(c) THEN <<pos[1], pos[2], 0, 0>> ELSE <<tgt[1], tgt[2], 0, 0>>

\* one call locked a target exactly at the tolerance onto another position and
\* left the position of a moving target out of tolerance where it was
C1_Witness ==
    /\ pc = "recomputed"
    /\ \E c \in Cells :
          /\ Distance(outputs[c[1]][c[2]], targets[c[1]][c[2]]) = Tolerance(task)
          /\ Locks(c)
          /\ new_targets[c[1]][c[2]] # targets[c[1]][c[2]]
    /\ \E c \in Cells :
          /\ Distance(outputs[c[1]][c[2]], targets[c[1]][c[2]]) > Tolerance(task)
          /\ targets[c[1]][c[2]][3] # 0
          /\ new_targets[c[1]][c[2]][1] = targets[c[1]][c[2]][1]

\* C6: a second recompute_targets with the same inputs and outputs returns the
\* targets the first returned.
C6_Idempotent ==
    pc = "recomputed_twice" => new_targets = targets

\* the second call met a locked target, and a target out of tolerance whose
\* velocity the first call had changed
C6_Witness ==
    /\ pc = "recomputed_twice"
    /\ \E c \in Cells : new_targets[c[1]][c[2]] = <<outputs[c[1]][c[2]][1], outputs[c[1]][c[2]][2], 0, 0>>
                        /\ outputs[c[1]][c[2]] # <<0, 0>>
    /\ \E c \in Cells : Distance(outputs[c[1]][c[2]], targets[c[1]][c[2]]) > Tolerance(task)


----------------------------------------------------------------------------
(* The generators. *)

Tasks == {"StaticTarget", "StaticTargetWithPerturbations", "DelayedReach",
          "DelayedMultiReach", "LoadProbability"}

\* delay_range / 1000 / dt of the constructed tasks, in half steps:
\* 0.5 to 1.5 steps, and 1 to 2.5 steps
DelayRanges == {<<1, 3>>, <<2, 5>>}

\* the fields __init__ may leave in a task
Confs(tk) ==
    CASE tk \in {"StaticTarget", "StaticTargetWithPerturbations"} ->
            {[initial_joint_state |-> <<1, 2>>]}
      [] tk = "DelayedReach" ->
            {[initial_joint_state |-> <<1, 2>>, bump_length |-> b, bump_height |-> 1,
              delay_range |-> r] : b \in 0..MaxBump, r \in DelayRanges}
      [] tk = "DelayedMultiReach" ->
            {[initial_joint_state |-> <<1, 2>>, bump_length |-> b, bump_height |-> 3,
              delay_range |-> r, num_target |-> k] :
                b \in 0..MaxBump, r \in DelayRanges, k \in 1..MaxTargets}
      [] OTHER ->
            {[initial_joint_state |-> <<1>>, fixation_time |-> f, delay_range |-> r] :
                f \in 0..MaxFixation, r \in DelayRanges}

\* the delay_time values generate_delay_time(delay_range[0], delay_range[1], 'random')
\* may return
DelayTimes(delay_range) ==
    {generate_delay_time(delay_range[1], delay_range[2], "random", u).value :
        u \in UniformDraws(delay_range[1], delay_range[2])}

\* a batch handed back, or the exception that ended the call
Batch(ins, tgts) == [raised |-> None, inputs |-> ins, targets |-> tgts]
NoBatch(e) == [raised |-> e, inputs |-> <<>>, targets |-> <<>>]

\* the effect of one generate call on the state
Call(batch_size, n_timesteps, states, drawn, result) ==
    /\ last_batch_size' = batch_size
    /\ last_n_timesteps' = n_timesteps
    /\ pc' = IF result.raised = None THEN "returned" ELSE "raised"
    /\ init_states' = IF result.raised = None THEN states ELSE <<>>
    /\ draws' = IF result.raised = None THEN drawn ELSE <<>>
    /\ inputs' = result.inputs
    /\ targets' = result.targets
    /\ UNCHANGED <<task, conf, outputs, new_targets>>

InitTask(tk) ==
    /\ pc = "ready"
    /\ task = tk
    /\ conf \in Confs(tk)
    /\ last_batch_size = None
    /\ last_n_timesteps = None
    /\ perturbation_dim_start = IF tk = "LoadProbability" THEN 2 ELSE None
    /\ init_states = <<>>
    /\ draws = <<>>
    /\ inputs = <<>>
    /\ targets = <<>>
    /\ outputs = <<>>
    /\ new_targets = <<>>

(* TaskStaticTarget and TaskStaticTargetWithPerturbations *)

\* targets[:, :, 0:self.plant.space_dim] at one timestep, space_dim being 2
Position(state) == <<state[1], state[2]>>

StaticTargetGenerate(batch_size, n_timesteps, goal_states) ==
    LET tgts == [i \in 1..batch_size |->
                    state2target(joint2cartesian(goal_states[i]), n_timesteps)]
    IN Batch([i \in 1..batch_size |-> [t \in 1..n_timesteps |-> Position(tgts[i][t])]], tgts)

StaticTargetWithPerturbationsGenerate(batch_size, n_timesteps, goal_states) ==
    LET tgts == [i \in 1..batch_size |->
                    state2target(joint2cartesian(goal_states[i]), n_timesteps)]
    IN Batch([i \in 1..batch_size |->
                 [t \in 1..n_timesteps |-> Position(tgts[i][t]) \o <<5, 5>>]], tgts)

GenerateStaticTarget ==
    /\ pc = "ready"
    /\ task = "StaticTarget"
    /\ \E batch_size \in 1..MaxBatch, n_timesteps \in 1..MaxSteps :
       \E states \in get_initial_state(conf.initial_joint_state, batch_size) :
       \E goal_states \in [1..batch_size -> GoalStates] :
          Call(batch_size, n_timesteps, states,
               [i \in 1..batch_size |-> [goal |-> goal_states[i]]],
               StaticTargetGenerate(batch_size, n_timesteps, goal_states))
    /\ UNCHANGED perturbation_dim_start

GenerateStaticTargetWithPerturbations ==
    /\ pc = "ready"
    /\ task = "StaticTargetWithPerturbations"
    /\ \E batch_size \in 1..MaxBatch, n_timesteps \in 1..MaxSteps :
       \E states \in get_initial_state(conf.initial_joint_state, batch_size) :
       \E goal_states \in [1..batch_size -> GoalStates] :
          Call(batch_size, n_timesteps, states,
               [i \in 1..batch_size |-> [goal |-> goal_states[i]]],
               StaticTargetWithPerturbationsGenerate(batch_size, n_timesteps, goal_states))
    /\ perturbation_dim_start' = 2

(* TaskDelayedReach *)

DelayedReachBump_PulseFirst(delay_time, bump_length, bump_height, n_timesteps) ==
    Fill(bump_length, bump_height) \o Fill(delay_time, 0)
        \o Fill(n_timesteps - delay_time - bump_length, 0)

\* np.concatenate([np.zeros(delay_time), np.ones(bump_length) * bump_height,
\*                 np.zeros(int(n_timesteps - delay_time - bump_length))])
DelayedReachBump(delay_time, bump_length, bump_height, n_timesteps) ==
    Fill(delay_time, 0) \o Fill(bump_length, bump_height)
        \o Fill(n_timesteps - delay_time - bump_length, 0)

\* the inputs that end the call: np.zeros of a negative length raises when the
\* pulse does not fit in n_timesteps, and with a single timestep np.squeeze
\* drops the time axis, so that np.concatenate along axis 1 raises
DelayedReachRaises(n_timesteps, delay_time, bump_length) ==
    \/ n_timesteps - delay_time - bump_length < 0
    \/ n_timesteps = 1

\* center = self.plant.joint2cartesian(init_states[0][0, :])
center_of(states) == joint2cartesian(states[1])

\* targets[i, 0:delay_time, :] = center
DelayedReachTargets(goal, center, delay_time, n_timesteps) ==
    [t \in 1..n_timesteps |-> IF t - 1 < delay_time THEN center ELSE goal]

DelayedReachGenerate(batch_size, n_timesteps, states, goal_states, delay_times, cf) ==
    IF \E i \in 1..batch_size : DelayedReachRaises(n_timesteps, delay_times[i], cf.bump_length)
    THEN NoBatch("ValueError")
    ELSE LET goal(i) == joint2cartesian(goal_states[i])
             bump(i) == DelayedReachBump(delay_times[i], cf.bump_length, cf.bump_height,
                                         n_timesteps)
         IN Batch([i \in 1..batch_size |->
                      [t \in 1..n_timesteps |-> Position(goal(i)) \o <<bump(i)[t]>>]],
                  [i \in 1..batch_size |->
                      DelayedReachTargets(goal(i), center_of(states), delay_times[i],
                                          n_timesteps)])

GenerateDelayedReach ==
    /\ pc = "ready"
    /\ task = "DelayedReach"
    /\ \E batch_size \in 1..MaxBatch, n_timesteps \in 1..MaxSteps :
       \E states \in get_initial_state(conf.initial_joint_state, batch_size) :
       \E goal_states \in [1..batch_size -> GoalStates] :
       \E delay_times \in [1..batch_size -> DelayTimes(conf.delay_range)] :
          Call(batch_size, n_timesteps, states,
               [i \in 1..batch_size |-> [goal |-> goal_states[i],
                                         delay_time |-> delay_times[i]]],
               DelayedReachGenerate(batch_size, n_timesteps, states, goal_states,
                                    delay_times, conf))
    /\ UNCHANGED perturbation_dim_start


(* TaskDelayedMultiReach *)

MultiReachSequenceTime_NoHold(num_target, n_timesteps, delay_max, bump_length) ==
    IntOfHalf(2 * num_target * n_timesteps + delay_max + 2 * bump_length)

\* sequence_time = int((num_target + 1) * target_list.shape[1] + self.delay_range[1]
\*                     + self.bump_length)
MultiReachSequenceTime(num_target, n_timesteps, delay_max, bump_length) ==
    IntOfHalf(2 * (num_target + 1) * n_timesteps + delay_max + 2 * bump_length)

\* the cue channel of one trial
MultiReachBump(n_timesteps, delay_time, bump_length, bump_height, num_target, delay_max) ==
    Fill(n_timesteps, 0) \o Fill(delay_time, 0) \o Fill(bump_length, bump_height)
        \o Fill(num_target * n_timesteps + IntOfHalf(delay_max - 2 * delay_time), 0)

\* one row of the concatenated goal positions, <<x1, y1, x2, y2, ...>>
MultiReachGoalRow(goals) ==
    [c \in 1..(2 * Len(goals)) |-> goals[(c + 1) \div 2][2 - (c % 2)]]

\* np.repeat(center[0, :2], num_target): <<x, ..., x, y, ..., y>>
MultiReachCenterRow(center, num_target) ==
    [c \in 1..(2 * num_target) |-> IF c <= num_target THEN center[1] ELSE center[2]]

\* input_tensor of one trial once its center and delay rows are assigned, where
\* numpy takes the float slice bounds truncated: the first n_timesteps rows
\* show the center, every later row is a row of the goals
MultiReachInputTensor(n_timesteps, num_target, delay_max, bump_length, goals, center) ==
    LET hold == IntOfHalf(delay_max + 2 * bump_length)
        rows == Fill(n_timesteps, Fill(2 * num_target, 0))
                    \o Fill(hold, Fill(2 * num_target, 0))
                    \o Fill(num_target * n_timesteps, MultiReachGoalRow(goals))
        centered == [t \in 1..Len(rows) |->
                        IF t - 1 < n_timesteps THEN MultiReachCenterRow(center, num_target)
                        ELSE rows[t]]
        shown == centered[n_timesteps + hold + 1 + 1]
    IN [t \in 1..Len(rows) |->
           IF n_timesteps <= t - 1 /\ t - 1 < n_timesteps + hold THEN shown ELSE centered[t]]

MultiReachTargets_AfterCue(sequence_time, n_timesteps, delay_time, bump_length, goals, center) ==
    LET num_target == Len(goals)
        start == n_timesteps + delay_time + bump_length
    IN [t \in 1..sequence_time |->
           IF t - 1 < start THEN center
           ELSE IF t - 1 < start + num_target * n_timesteps
                THEN goals[((t - 1 - start) \div n_timesteps) + 1]
                ELSE goals[num_target]]

\* targets of one trial, the four assignments applied in the code's order to the
\* zeros the tensor starts from
MultiReachTargets(sequence_time, n_timesteps, delay_time, bump_length, goals, center) ==
    LET num_target == Len(goals)
        a0 == Fill(sequence_time, <<0, 0, 0, 0>>)
        a1 == [t \in 1..sequence_time |-> IF t - 1 < n_timesteps THEN center ELSE a0[t]]
        a2 == [t \in 1..sequence_time |->
                  IF n_timesteps <= t - 1 /\ t - 1 < n_timesteps + delay_time
                  THEN center ELSE a1[t]]
        a3 == [t \in 1..sequence_time |->
                  IF /\ n_timesteps + delay_time <= t - 1
                     /\ t - 1 < n_timesteps + delay_time + num_target * n_timesteps
                  THEN goals[((t - 1 - n_timesteps - delay_time) \div n_timesteps) + 1]
                  ELSE a2[t]]
    IN [t \in 1..sequence_time |->
           IF delay_time + num_target * n_timesteps <= t - 1 THEN goals[num_target]
           ELSE a3[t]]

\* float_index is whether numpy takes the float bounds n_timesteps +
\* self.delay_range[1] + self.bump_length of lines 197-198 as indices (truncating
\* them, as numpy before 1.12 did) or raises on them (as numpy has since); with a
\* single timestep np.squeeze drops the time axis and np.concatenate raises, as
\* it does when the cue channel and input_tensor differ in length
DelayedMultiReachGenerate(batch_size, n_timesteps, states, goal_states, delay_times, cf, float_index) ==
    IF n_timesteps = 1 THEN NoBatch("AxisError")
    ELSE IF ~float_index THEN NoBatch("IndexError")
    ELSE IF \E i \in 1..batch_size :
                Len(MultiReachBump(n_timesteps, delay_times[i], cf.bump_length, cf.bump_height,
                                   cf.num_target, cf.delay_range[2]))
                    # n_timesteps + IntOfHalf(cf.delay_range[2] + 2 * cf.bump_length)
                          + cf.num_target * n_timesteps
         THEN NoBatch("ValueError")
    ELSE LET sequence_time == MultiReachSequenceTime(cf.num_target, n_timesteps,
                                                     cf.delay_range[2], cf.bump_length)
             center == center_of(states)
             goals(i) == [k \in 1..cf.num_target |-> joint2cartesian(goal_states[i][k])]
             bump(i) == MultiReachBump(n_timesteps, delay_times[i], cf.bump_length,
                                       cf.bump_height, cf.num_target, cf.delay_range[2])
             rows(i) == MultiReachInputTensor(n_timesteps, cf.num_target, cf.delay_range[2],
                                              cf.bump_length, goals(i), center)
         IN Batch([i \in 1..batch_size |->
                      [t \in 1..Len(bump(i)) |-> rows(i)[t] \o <<bump(i)[t]>>]],
                  [i \in 1..batch_size |->
                      MultiReachTargets(sequence_time, n_timesteps, delay_times[i],
                                        cf.bump_length, goals(i), center)])

GenerateDelayedMultiReach ==
    /\ pc = "ready"
    /\ task = "DelayedMultiReach"
    /\ \E batch_size \in 1..MaxMultiBatch, n_timesteps \in 1..MaxSteps :
       \E states \in get_initial_state(conf.initial_joint_state, batch_size) :
       \E goal_states \in [1..batch_size -> [1..conf.num_target -> GoalStates]] :
       \E delay_times \in [1..batch_size -> DelayTimes(conf.delay_range)] :
       \E float_index \in BOOLEAN :
          Call(batch_size, n_timesteps, states,
               [i \in 1..batch_size |-> [goals |-> goal_states[i],
                                         delay_time |-> delay_times[i]]],
               DelayedMultiReachGenerate(batch_size, n_timesteps, states, goal_states,
                                         delay_times, conf, float_index))
    /\ UNCHANGED perturbation_dim_start

(* TaskLoadProbability *)

\* prob_array = [0, 0.25, 0.5, 0.75, 1]
prob_array == <<0, 5, 10, 15, 20>>

\* values np.random.rand() returns, in [0, 1): 0, 0.2, 0.5 and 0.95
RandDraws == {0, 4, 10, 19}

CatchLevel == 4     \* 0.2
One == 20           \* 1

\* center + np.array([-0.028279, -0.042601, 0, 0]), the offset rounded to the unit
LoadGoalState(center) == <<center[1] - 6, center[2] - 9, center[3], center[4]>>

\* np.greater_equal(np.random.rand(), 0.2): the trial is not a catch trial
NotCatch(rand) == rand >= CatchLevel

LoadPert_Swapped(rand, prob) == IF rand >= prob THEN -2 ELSE 0

\* pert of a trial that is not a catch trial
LoadPert(rand, prob) == IF rand >= prob THEN 0 ELSE -2

LoadCue_NoDelay(value, fixation_time, n_timesteps) ==
    [t \in 1..n_timesteps |-> IF t - 1 >= fixation_time THEN value ELSE 0]

\* input_1 and input_2: zeros with [self.fixation_time + 1:] = value
LoadCue(value, fixation_time, n_timesteps) ==
    [t \in 1..n_timesteps |-> IF t - 1 >= fixation_time + 1 THEN value ELSE 0]

\* perturbation: np.tile([0, -1], (n_timesteps, 1)) with [pert_time:, 1] = pert
\* unless the trial is a catch trial
LoadPerturbation(not_catch, pert_time, pert, n_timesteps) ==
    [t \in 1..n_timesteps |->
        <<0, IF not_catch /\ t - 1 >= pert_time THEN pert ELSE Background>>]

\* targets of one trial: the goal with [0:pert_time] = center, or the center
\* throughout in a catch trial
LoadTargets(not_catch, pert_time, center, n_timesteps) ==
    [t \in 1..n_timesteps |->
        IF not_catch /\ t - 1 >= pert_time THEN LoadGoalState(center) ELSE center]

\* d is the trial's draws: delay_time, prob, and the two np.random.rand() values
LoadProbabilityGenerate(batch_size, n_timesteps, states, d, cf) ==
    LET center == center_of(states)
        pert_time(i) == d[i].delay_time + cf.fixation_time
        not_catch(i) == NotCatch(d[i].rand_catch)
        input_1(i) == LoadCue(d[i].prob, cf.fixation_time, n_timesteps)
        input_2(i) == LoadCue(One - d[i].prob, cf.fixation_time, n_timesteps)
        perturbation(i) == LoadPerturbation(not_catch(i), pert_time(i),
                                            LoadPert(d[i].rand_pert, d[i].prob), n_timesteps)
    IN Batch([i \in 1..batch_size |->
                 [t \in 1..n_timesteps |->
                     <<input_1(i)[t], input_2(i)[t]>> \o perturbation(i)[t]]],
             [i \in 1..batch_size |->
                 LoadTargets(not_catch(i), pert_time(i), center, n_timesteps)])

\* what of a trial's draws the batch keeps: rand_pert is drawn only when the
\* trial is not a catch trial
LoadDrawn(d) ==
    [delay_time |-> d.delay_time, prob |-> d.prob, catch |-> ~NotCatch(d.rand_catch),
     pert |-> IF NotCatch(d.rand_catch) THEN LoadPert(d.rand_pert, d.prob) ELSE Background]

LoadDraws(delay_range) ==
    [delay_time : DelayTimes(delay_range), prob : {prob_array[k] : k \in 1..5},
     rand_catch : RandDraws, rand_pert : RandDraws]

GenerateLoadProbability ==
    /\ pc = "ready"
    /\ task = "LoadProbability"
    /\ \E batch_size \in 1..MaxLoadBatch, n_timesteps \in 1..MaxSteps :
       \E states \in get_initial_state(conf.initial_joint_state, batch_size) :
       \E d \in [1..batch_size -> LoadDraws(conf.delay_range)] :
          Call(batch_size, n_timesteps, states,
               [i \in 1..batch_size |-> LoadDrawn(d[i])],
               LoadProbabilityGenerate(batch_size, n_timesteps, states, d, conf))
    /\ UNCHANGED perturbation_dim_start

----------------------------------------------------------------------------
(* The task after construction and one generate call. *)

Init == \E tk \in Tasks : InitTask(tk)

Next ==
    \/ GenerateStaticTarget
    \/ GenerateStaticTargetWithPerturbations
    \/ GenerateDelayedReach
    \/ GenerateDelayedMultiReach
    \/ GenerateLoadProbability

Spec == Init /\ [][Next]_vars


----------------------------------------------------------------------------
(* The load-probability task through one training step: generate, the      *)
(* model's forward pass, recompute_targets.                                *)

\* how far from the target the forward pass ends up, the same at every timestep
\* of a trial: at the load tolerance, and just beyond it
RolloutOffsets == {<<7, 0>>, <<0, 8>>}

\* the forward pass of the model on the batch, external to tasks.py
ForwardPass ==
    /\ pc = "returned"
    /\ task \in RecomputingTasks
    /\ \E off \in [1..Len(targets) -> RolloutOffsets] :
          outputs' = [i \in 1..Len(targets) |->
                         [t \in 1..Len(targets[i]) |->
                             <<targets[i][t][1] + off[i][1], targets[i][t][2] + off[i][2]>>]]
    /\ pc' = "rolled_out"
    /\ UNCHANGED <<task, conf, last_batch_size, last_n_timesteps, perturbation_dim_start,
                   init_states, draws, inputs, targets, new_targets>>

InitLoad == InitTask("LoadProbability")

NextLoad == GenerateLoadProbability \/ ForwardPass \/ Recompute

SpecLoad == InitLoad /\ [][NextLoad]_vars

----------------------------------------------------------------------------
(* Properties of the generated batches. *)

HasBatch == pc \in {"returned", "rolled_out", "recomputed"}

Trials == 1..Len(targets)

\* the generator's declared sequence length, delay_max counted in whole steps
DeclaredLength ==
    IF task = "DelayedMultiReach"
    THEN (conf.num_target + 1) * last_n_timesteps + IntOfHalf(conf.delay_range[2])
             + conf.bump_length
    ELSE last_n_timesteps

C4_CuePulse ==
    (pc = "returned" /\ task = "DelayedReach") =>
        \A i \in Trials : \A t \in 1..last_n_timesteps :
            inputs[i][t][3] =
                IF /\ draws[i].delay_time <= t - 1
                   /\ t - 1 < draws[i].delay_time + conf.bump_length
                THEN conf.bump_height ELSE 0

\* a trial whose pulse has timesteps before it and after it
C4_Witness ==
    /\ pc = "returned"
    /\ task = "DelayedReach"
    /\ conf.bump_length >= 1
    /\ \E i \in Trials :
          /\ draws[i].delay_time >= 1
          /\ draws[i].delay_time + conf.bump_length < last_n_timesteps
          /\ inputs[i][draws[i].delay_time + 1][3] = conf.bump_height

\* C9: the target of delayed-reach trial i is the cartesian projection of trial
\* i's own initial joint state before delay_time and trial i's goal from
\* delay_time on, and the input position channels show the goal throughout.
C9_OwnCenter ==
    (pc = "returned" /\ task = "DelayedReach") =>
        \A i \in Trials : \A t \in 1..last_n_timesteps :
            /\ targets[i][t] = IF t - 1 < draws[i].delay_time
                               THEN joint2cartesian(init_states[i])
                               ELSE joint2cartesian(draws[i].goal)
            /\ <<inputs[i][t][1], inputs[i][t][2]>> = Position(joint2cartesian(draws[i].goal))

\* the goals of multi-reach trial i, and the python index its cue starts at
GoalOf(i, k) == joint2cartesian(draws[i].goals[k])
CueStart(i) == last_n_timesteps + draws[i].delay_time

----------------------------------------------------------------------------
(* Properties of the load-probability task. *)

\* the python index the perturbation of trial i sets in at
PertTime(i) == draws[i].delay_time + conf.fixation_time

\* the timesteps (python indices) at which trial i's load has stepped
Perturbed(i) == {k \in 0..(last_n_timesteps - 1) : ~draws[i].catch /\ k >= PertTime(i)}

\* C2 as stated: a trial that is not a catch trial has pert = 0 when its
\* probability is 1 and pert = -2 when its probability is 0.
C2_AsStated ==
    (HasBatch /\ task = "LoadProbability") =>
        \A i \in Trials :
            ~draws[i].catch =>
                /\ draws[i].prob = One => draws[i].pert = 0
                /\ draws[i].prob = 0 => draws[i].pert = -2

\* C2 amended: a trial that is not a catch trial has pert = -2 when its
\* probability is 1 and pert = 0 when its probability is 0, whatever is drawn
\* for the comparison; the load channel holds that value from the onset on.
C2_ProbabilityOfMinusTwo ==
    (HasBatch /\ task = "LoadProbability") =>
        \A i \in Trials :
            ~draws[i].catch =>
                /\ draws[i].prob = One => draws[i].pert = -2
                /\ draws[i].prob = 0 => draws[i].pert = 0
                /\ \A k \in Perturbed(i) : inputs[i][k + 1][4] = draws[i].pert

\* a trial of probability 1 whose load is seen to step to -2
C2_Witness ==
    /\ pc = "returned"
    /\ task = "LoadProbability"
    /\ \E i \in Trials :
          /\ ~draws[i].catch
          /\ draws[i].prob = One
          /\ Perturbed(i) # {}
          /\ inputs[i][last_n_timesteps][4] = -2

\* C8: the two probability channels are 0 on the timesteps 0..fixation_time and
\* hold p and 1 - p on every later timestep, in catch trials too.
C8_CueAfterFixation ==
    (HasBatch /\ task = "LoadProbability") =>
        \A i \in Trials : \A t \in 1..last_n_timesteps :
            IF t - 1 <= conf.fixation_time
            THEN inputs[i][t][1] = 0 /\ inputs[i][t][2] = 0
            ELSE inputs[i][t][1] = draws[i].prob /\ inputs[i][t][2] = One - draws[i].prob

\* a catch trial that shows a probability of 0.25 after a fixation of one step
C8_Witness ==
    /\ pc = "returned"
    /\ task = "LoadProbability"
    /\ conf.fixation_time = 1
    /\ last_n_timesteps >= 3
    /\ \E i \in Trials :
          /\ draws[i].catch
          /\ draws[i].prob = 5
          /\ inputs[i][2][1] = 0
          /\ inputs[i][3] = <<5, 15, 0, Background>>

\* C7: the load channel of a generated batch is -1 exactly on the timesteps of
\* catch trials and on the timesteps before the onset of the other trials, and
\* recompute_targets leaves the target position of those timesteps as it was.
C7_MarkedStepsKept ==
    (HasBatch /\ task = "LoadProbability") =>
        \A i \in Trials : \A t \in 1..last_n_timesteps :
            /\ (inputs[i][t][4] = Background) <=> (t - 1 \notin Perturbed(i))
            /\ (pc = "recomputed" /\ t - 1 \notin Perturbed(i)) =>
                   Position(new_targets[i][t]) = Position(targets[i][t])

\* after recompute_targets, a trial whose achieved position was within
\* tolerance throughout: kept before the onset, locked after it
C7_Witness ==
    /\ pc = "recomputed"
    /\ task = "LoadProbability"
    /\ \E i \in Trials :
          /\ Perturbed(i) # {}
          /\ PertTime(i) >= 1
          /\ \A t \in 1..last_n_timesteps :
                Distance(outputs[i][t], targets[i][t]) <= LoadTolerance
          /\ outputs[i][1] # Position(targets[i][1])
          /\ Position(new_targets[i][1]) = Position(targets[i][1])
          /\ Position(new_targets[i][last_n_timesteps]) = outputs[i][last_n_timesteps]


====
